---- MODULE Spec2Model ----
(***************************************************************************)
(* Training-and-inference lifecycle of the neural network visualiser.      *)
(*                                                                         *)
(* The repository holds two versions of class NeuralNetworkModel (one fit  *)
(* call per run, and the chunked driver) and two versions of the App       *)
(* component.  `variant` and `app` select the version; every step of the   *)
(* model runs from one point where the JavaScript task yields to the host  *)
(* task queue (an await of a frame, of a timer) to the next one.           *)
(***************************************************************************)
EXTENDS Integers, Sequences, FiniteSets, TLC

(* ---------------------------------------------------------------- bounds *)
MaxEpochs == 11       \* the largest epoch count a parameter record holds
MaxRuns == 2          \* train calls that can be unsettled or unreclaimed at once
MaxDepth == 2         \* engine scope depth at which no further run is started
MaxStarts == 2        \* Start clicks of one session
MaxWait == 1          \* steps other train calls take while a chunk timer is pending

(* ------------------------------------------------------ program constants *)
MaxRows == 2          \* rows of an input batch given to predict
MaxWidth == 3         \* feature width of an input batch given to predict
MaxLayers == 2        \* hidden layers of a model predict is called on
Units == 2            \* steps per unit length of a sampled coordinate
MaxSamples == 2       \* points of a generated circle sample
MaxFetches == 2       \* getDatasetByName calls of a session of dataset fetches
MaxReports == 2       \* epochs reported to the callback on its own
defaultBatchSize == 32      \* batchSize of the default parameter record
batchesPerRun == 5    \* epochs per fit call of the chunked driver
xorBatchSize == 4     \* batch size of the chunked XOR fit calls

Variants == {"single", "chunked"}
Apps == {"A", "B"}
Datasets == {"xor", "circle", "regression", "mnist"}
Tasks == {"xor", "circle", "regression"}
\* epoch counts: one short chunk, exactly one full chunk, and a count that
\* needs a third, short chunk
EpochRange == {3, batchesPerRun, MaxEpochs}
Slots == 1..MaxRuns

NoModel == [kind |-> "none"]

VARIABLES
    variant,             \* which version of class NeuralNetworkModel is loaded
    app,                 \* which version of the App component is loaded
    parameters,          \* App state: the parameter record
    selectedDataset,     \* App state
    appIsTraining,       \* App state: isTraining
    currentEpoch,        \* App state
    model,               \* NeuralNetworkModel.model (tf.Sequential or null)
    isTraining,          \* NeuralNetworkModel.isTraining
    shouldStopTraining,  \* NeuralNetworkModel.shouldStopTraining
    scopeDepth,          \* depth of the engine's scope stack
    runs,                \* the train calls: slot -> run record
    frames,              \* the train calls whose fit awaits the next frame, oldest first
    starts,              \* Start clicks so far
    lastPredict,         \* the last predict call and what it did
    draw,                \* DecisionBoundaryVisualizer: the canvas and the drawBoundary call
    dataset,             \* the dataset record last returned by a generator
    history,             \* App state: lengths of lossHistory and accuracyHistory
    event,               \* the last log record of the runtime and what was forwarded of it
    mounted,             \* the App component is mounted
    liveModels,          \* tf.Sequential instances created and not disposed
    liveData             \* dataset records fetched by the App and not disposed

vars == <<variant, app, parameters, selectedDataset, appIsTraining, currentEpoch,
          model, isTraining, shouldStopTraining, scopeDepth, runs, frames, starts,
          lastPredict, draw, dataset, history, event, mounted, liveModels, liveData>>

(* ------------------------------------------------------------- helpers *)
Min(a, b) == IF a < b THEN a ELSE b

\* Math.ceil(a / b) for positive integers
Ceil(a, b) == (a + b - 1) \div b

IdleRun ==
    [pc |-> "idle", task |-> "none", epochs |-> 0, run |-> 0, ep |-> 0,
     log |-> <<>>, thrown |-> "none", rejected |-> "none",
     attached |-> FALSE, detStop |-> FALSE,
     scopes |-> 0, base |-> FALSE, clones |-> FALSE, wait |-> 0,
     params |-> <<>>, fitOn |-> NoModel, fed |-> <<>>, batch |-> 0,
     batchSize |-> 0, modelDisposed |-> FALSE, stopOnEntry |-> FALSE]

\* what the last predict call did
NoResult ==
    [outcome |-> "none", rows |-> 0, width |-> 0, inputWidth |-> 0,
     declared |-> 0, shape |-> <<>>, calls |-> <<>>, tiers |-> <<>>,
     features |-> "none"]

\* no dataset fetched or generated yet
NoDataset == [generator |-> "none", inputShape |-> 0, points |-> <<>>, labels |-> <<>>]

\* lossHistory and accuracyHistory empty
NoHistory == [loss |-> 0, accuracy |-> 0]

\* no epoch reported yet
NoEvent == [task |-> "none", logs |-> <<>>, forwarded |-> <<>>]

\* no drawBoundary call yet; the component's shouldRender state starts false
NoDraw ==
    [pc |-> "none", shouldRender |-> FALSE, dataset |-> "none",
     connected |-> FALSE, canvas |-> <<>>, cleared |-> FALSE,
     inputs |-> "none", predictions |-> "none", result |-> NoResult,
     error |-> "none",
     gridPoints |-> <<>>, fills |-> <<>>]

Reclaim(rs) == [r \in DOMAIN rs |-> IF rs[r].pc = "done" THEN IdleRun ELSE rs[r]]

\* The mutable state as one record, so that a handler's statements compose.
\* A settled train call is kept for one state and then forgotten.
Cur ==
    [parameters |-> parameters, selectedDataset |-> selectedDataset,
     appIsTraining |-> appIsTraining,
     currentEpoch |-> currentEpoch, model |-> model, isTraining |-> isTraining,
     shouldStopTraining |-> shouldStopTraining, scopeDepth |-> scopeDepth,
     runs |-> Reclaim(runs), frames |-> frames,
     liveModels |-> liveModels, liveData |-> liveData,
     dataset |-> dataset, history |-> history]

Apply(s) ==
    /\ parameters' = s.parameters
    /\ selectedDataset' = s.selectedDataset
    /\ appIsTraining' = s.appIsTraining
    /\ currentEpoch' = s.currentEpoch
    /\ model' = s.model
    /\ isTraining' = s.isTraining
    /\ shouldStopTraining' = s.shouldStopTraining
    /\ scopeDepth' = s.scopeDepth
    /\ runs' = s.runs
    /\ frames' = s.frames
    /\ liveModels' = s.liveModels
    /\ liveData' = s.liveData
    /\ dataset' = s.dataset
    /\ history' = s.history

\* pc "frame": a fit call is in progress and waits for the next frame after an
\* epoch's callback; pc "pause": the timer between two chunks is pending
InFit(run) == run.pc = "frame"
Active(run) == run.pc \in {"frame", "pause"}

\* tf.Sequential.isTraining of the installed model: a fit call on it is in progress
FitOngoing(s) == \E r \in Slots : InFit(s.runs[r]) /\ s.runs[r].attached

\* The timers between chunks are short: while one is pending, the other train
\* calls take at most MaxWait steps before it fires.
CanStep(r) == \A q \in Slots \ {r} : runs[q].pc = "pause" => runs[q].wait < MaxWait

Tick(s, r) ==
    [s EXCEPT !.runs = [q \in Slots |->
        IF q # r /\ runs[q].pc = "pause"
        THEN [s.runs[q] EXCEPT !.wait = @ + 1]
        ELSE s.runs[q]]]

(* --------------------------------------------------------- model builder *)
\* createModel's layer stack: neuronsPerLayer[0..layers-1], then the head
\* built: the part of the parameter record the stack was built from
DenseModelHeadless(p, inputWidth, head) ==
    [kind |-> "model", inputWidth |-> inputWidth,
     units |-> [i \in 1..p.layers |-> p.neuronsPerLayer[i]],
     head |-> head, stopTraining |-> FALSE,
     built |-> [layers |-> p.layers, neuronsPerLayer |-> p.neuronsPerLayer]]

DenseModel(p, inputWidth, head) ==
    [kind |-> "model", inputWidth |-> inputWidth,
     units |-> [i \in 1..p.layers |-> p.neuronsPerLayer[i]] \o <<1>>,
     head |-> head, stopTraining |-> FALSE,
     built |-> [layers |-> p.layers, neuronsPerLayer |-> p.neuronsPerLayer]]

\* Installing another tf.Sequential leaves the fits in progress on the old one
\* running on it; they keep the old instance's stopTraining flag.  A train
\* call in progress began on the instance that is disposed here, or on one
\* disposed before it.
Detach(s) ==
    [s EXCEPT !.runs = [r \in Slots |->
        IF InFit(s.runs[r]) /\ s.runs[r].attached
        THEN [s.runs[r] EXCEPT !.attached = FALSE, !.detStop = s.model.stopTraining,
                               !.modelDisposed = TRUE]
        ELSE IF Active(s.runs[r])
        THEN [s.runs[r] EXCEPT !.modelDisposed = TRUE]
        ELSE s.runs[r]]]

\* this.model.dispose()
disposeModel(s) == [Detach(s) EXCEPT !.liveModels = @ - 1]

disposeIfAny(s) == IF s.model # NoModel THEN disposeModel(s) ELSE s

Install(s, m) == [s EXCEPT !.model = m, !.liveModels = @ + 1]

createModelKeep(s, p) == Install(s, DenseModel(p, 2, "sigmoid"))

createModel(s, p) == Install(disposeIfAny(s), DenseModel(p, 2, "sigmoid"))

createRegressionModel(s, p) == Install(disposeIfAny(s), DenseModel(p, 1, "linear"))

\* NeuralNetworkModel.dispose
dispose(s) == IF s.model # NoModel THEN [disposeModel(s) EXCEPT !.model = NoModel] ELSE s

(* ------------------------------------------------------- training driver *)
Chunked == variant = "chunked"

\* the chunked trainOnXOR differs from the other train operations
ScopedXOR(task) == Chunked /\ task = "xor"

totalRuns(epochs) == IF Chunked THEN Ceil(epochs, batchesPerRun) ELSE 1

remainingEpochs(run, epochs) ==
    IF Chunked THEN Min(batchesPerRun, epochs - run * batchesPerRun) ELSE epochs

actualEpochLocal(run, epoch) == epoch

actualEpoch(run, epoch) == IF Chunked THEN run * batchesPerRun + epoch ELSE epoch

\* the per-epoch callback reads shouldStopTraining
checksStop(task) == ~ScopedXOR(task)

\* the fit call is given an onTrainEnd callback
hasOnTrainEnd(task) == ~ScopedXOR(task)

\* The record of a train call: its fit calls ("fit", epochs asked for), the
\* events it delivered ("epoch", index; "complete"), the first stop request
\* made while it was in progress ("stopreq", epochs delivered so far) and the
\* first time its per-epoch callback saw the request ("stopseen", index).
Log(s, r, kind, n) ==
    [s EXCEPT !.runs[r].log = Append(@, [kind |-> kind, n |-> n])]

Has(log, kind) == \E i \in DOMAIN log : log[i].kind = kind

Count(log, kind) == Cardinality({i \in DOMAIN log : log[i].kind = kind})

LogOnce(s, r, kind, n) == IF Has(s.runs[r].log, kind) THEN s ELSE Log(s, r, kind, n)

\* A field of the log record the runtime hands to onEpochEnd is "number" or
\* "absent".  The record of a model compiled with metrics ['accuracy'] has
\* loss and acc, that of one compiled with metrics ['mse'] has loss and mse.
runtimeLogs(task) ==
    IF task = "regression"
    THEN [loss |-> "number", acc |-> "absent", accuracy |-> "absent", mse |-> "number"]
    ELSE [loss |-> "number", acc |-> "number", accuracy |-> "absent", mse |-> "absent"]

\* a forwarded value: what it is and the field it was taken from
Value(kind, from) == [kind |-> kind, from |-> from]

\* logs.loss || 0
lossOrZero(logs) ==
    IF logs.loss = "number" THEN Value("number", "loss") ELSE Value("number", "default")

\* logs.loss as number, logs.acc as number
cast(logs, name) ==
    IF logs[name] = "number" THEN Value("number", name) ELSE Value("undefined", name)

\* typeof logs.acc !== 'undefined' ? logs.acc :
\* typeof logs.accuracy !== 'undefined' ? logs.accuracy : 0
accuracyOf(logs) ==
    IF logs.acc # "absent" THEN Value("number", "acc")
    ELSE IF logs.accuracy # "absent" THEN Value("number", "accuracy")
    ELSE Value("number", "default")

\* 1 - (logs.mse as number) / 10
fromMse(logs) ==
    IF logs.mse = "number" THEN Value("number", "mse") ELSE Value("nan", "mse")

\* the record the driver's callback hands to callbacks.onEpochEnd
forwarded(task, logs) ==
    IF Chunked
    THEN [loss |-> lossOrZero(logs),
          accuracy |-> IF task = "regression" THEN fromMse(logs) ELSE accuracyOf(logs)]
    ELSE [loss |-> cast(logs, "loss"),
          accuracy |-> IF task = "regression" THEN fromMse(logs) ELSE cast(logs, "acc")]

\* typeof v === 'number' && !isNaN(v)
Valid(v) == v.kind = "number"

\* App callbacks.  The first App appends a value to its history when it is a
\* number, the second appends whatever it is handed.
onEpochEnd(s, epoch, logs) ==
    [s EXCEPT !.currentEpoch = epoch + 1,
              !.history.loss = IF app = "B" \/ Valid(logs.loss) THEN @ + 1 ELSE @,
              !.history.accuracy = IF app = "B" \/ Valid(logs.accuracy) THEN @ + 1 ELSE @]

onTrainingComplete(s, r) == [Log(s, r, "complete", 0) EXCEPT !.appIsTraining = FALSE]

\* handleStartTraining after the awaited train call resolved
settle(s, r) ==
    [s EXCEPT !.runs[r].pc = "done",
              !.appIsTraining = IF app = "A" THEN FALSE ELSE @]

\* the train call rejected: handleStartTraining's catch
catchTrainingError(s, r) ==
    [s EXCEPT !.runs[r].pc = "done", !.appIsTraining = FALSE]

\* fit threw err in run r: the chunk's finally, the train call's finally, the
\* rejection of the train call.  The scope the chunk opened stays open: the
\* endScope call follows the try statement and is not reached.
fitErrorRetried(s, r, err) ==
    [s EXCEPT !.runs[r].thrown = err, !.runs[r].attached = FALSE,
              !.runs[r].clones = FALSE, !.runs[r].pc = "pause", !.runs[r].wait = 0]

fitError(s, r, err) ==
    LET s1 == [s EXCEPT !.runs[r].thrown = err,
                        !.runs[r].attached = FALSE,
                        !.runs[r].clones = FALSE,
                        !.runs[r].base = FALSE,
                        !.runs[r].rejected = err]
    IN  catchTrainingError(s1, r)

\* the per-epoch callback given to fit
epochCallback(s, r) ==
    LET R == s.runs[r]
        e == actualEpoch(R.run, R.ep)
        s1 == onEpochEnd(Log(s, r, "epoch", e), e,
                         forwarded(R.task, runtimeLogs(R.task)))
    IN  IF checksStop(R.task) /\ s1.shouldStopTraining /\ s1.model # NoModel
        THEN [LogOnce(s1, r, "stopseen", e) EXCEPT !.model.stopTraining = TRUE]
        ELSE s1

\* fit's loop body for epoch runs[r].ep, up to the frame the callback awaits.
\* ok: the runtime computes the epoch without an internal error.  An epoch on
\* a disposed model throws.
runEpoch(s, r, ok) ==
    IF ~s.runs[r].attached THEN fitError(s, r, "disposed")
    ELSE IF ~ok THEN fitError(s, r, "internal")
    ELSE [epochCallback(s, r) EXCEPT !.runs[r].pc = "frame",
                                     !.frames = Append(@, r)]

\* what a fit call sees of the model it is called on
Architecture(m) ==
    IF m = NoModel THEN NoModel
    ELSE [kind |-> "model", inputWidth |-> m.inputWidth, units |-> m.units,
          head |-> m.head]

\* feature width of the task's training data
dataWidth(task) == IF task = "regression" THEN 1 ELSE 2

\* the batchSize option of a fit call of the task
fitBatchSize(task, R) == IF ScopedXOR(task) THEN xorBatchSize ELSE R.batchSize

\* the buffers handed to the fit call of chunk run
fitData(task, run) == IF ScopedXOR(task) THEN <<"clone", run>> ELSE <<"base", 0>>

\* one iteration of the chunk loop, up to the first frame awaited inside fit
beginChunk(s, r, run, ok) ==
    LET R == s.runs[r]
        n == remainingEpochs(run, R.epochs)
        s1 == IF ScopedXOR(R.task)
              THEN [s EXCEPT !.scopeDepth = @ + 1, !.runs[r].scopes = @ + 1,
                             !.runs[r].clones = TRUE]
              ELSE s
        s2 == Log([s1 EXCEPT !.runs[r].run = run, !.runs[r].ep = 0,
                             !.runs[r].fitOn = Architecture(s1.model),
                             !.runs[r].fed = Append(@, fitData(R.task, run)),
                             !.runs[r].batch = fitBatchSize(R.task, R)],
                  r, "fit", n)
    IN  IF s2.model = NoModel
        THEN fitError(s2, r, "nomodel")
        ELSE IF FitOngoing(s2)
        THEN fitError(s2, r, "ongoing")
        ELSE IF s2.model.inputWidth # dataWidth(R.task)
        THEN fitError(s2, r, "shape")
        ELSE runEpoch([s2 EXCEPT !.runs[r].attached = TRUE,
                                 !.model.stopTraining = FALSE], r, ok)

\* the train operation without the reset of shouldStopTraining
trainBeginNoReset(s, r, task, p, ok) ==
    LET s1 == IF task = "regression" THEN createRegressionModel(s, p)
              ELSE IF s.model = NoModel THEN createModel(s, p)
              ELSE s
        s2 == IF ScopedXOR(task) THEN s1
              ELSE [s1 EXCEPT !.isTraining = TRUE]
        s3 == [s2 EXCEPT !.runs[r] =
                  [IdleRun EXCEPT !.task = task, !.epochs = p.epochs,
                                  !.base = TRUE, !.params = p.neuronsPerLayer,
                                  !.batchSize = p.batchSize,
                                  !.stopOnEntry = s.shouldStopTraining]]
    IN  beginChunk(s3, r, 0, ok)

\* the train operation from its call to its first await
\* stopOnEntry: the value of shouldStopTraining the call found
trainBegin(s, r, task, p, ok) ==
    LET s1 == IF task = "regression" THEN createRegressionModel(s, p)
              ELSE IF s.model = NoModel THEN createModel(s, p)
              ELSE s
        s2 == IF ScopedXOR(task) THEN s1
              ELSE [s1 EXCEPT !.isTraining = TRUE, !.shouldStopTraining = FALSE]
        s3 == [s2 EXCEPT !.runs[r] =
                  [IdleRun EXCEPT !.task = task, !.epochs = p.epochs,
                                  !.base = TRUE, !.params = p.neuronsPerLayer,
                                  !.batchSize = p.batchSize,
                                  !.stopOnEntry = s.shouldStopTraining]]
    IN  beginChunk(s3, r, 0, ok)

\* the train operation after its last chunk
trainEnd(s, r) ==
    LET s1 == IF ScopedXOR(s.runs[r].task) THEN onTrainingComplete(s, r) ELSE s
        s2 == [s1 EXCEPT !.runs[r].base = FALSE]
    IN  settle(s2, r)

\* fit resolved: onTrainEnd, then the rest of the loop body up to the pause
fitReturnNoPause(s, r) ==
    LET R == s.runs[r]
    IN  IF Chunked /\ R.run + 1 < totalRuns(R.epochs)
        THEN beginChunk([s EXCEPT !.runs[r].attached = FALSE], r, R.run + 1, TRUE)
        ELSE trainEnd(s, r)

fitReturn(s, r) ==
    LET t == s.runs[r].task
        s1 == IF hasOnTrainEnd(t)
              THEN onTrainingComplete([s EXCEPT !.isTraining = FALSE], r)
              ELSE s
        s2 == [s1 EXCEPT !.runs[r].attached = FALSE]
        s3 == IF ScopedXOR(t)
              THEN [s2 EXCEPT !.runs[r].clones = FALSE, !.scopeDepth = @ - 1,
                              !.runs[r].scopes = @ - 1]
              ELSE s2
    IN  IF Chunked THEN [s3 EXCEPT !.runs[r].pc = "pause", !.runs[r].wait = 0]
        ELSE trainEnd(s3, r)

\* what the fit loop reads after an epoch's callbacks
stopFlag(s, r) ==
    IF s.runs[r].attached THEN s.model.stopTraining ELSE s.runs[r].detStop

(* ---------------------------------------------------------------- actions *)
FreeSlots(s) == {r \in Slots : s.runs[r].pc \in {"idle", "done"}}

TrainTask(d) == IF d \in {"circle", "regression"} THEN d ELSE "xor"

\* floor of the square root
FloorSqrt(n) == CHOOSE r \in 0..n : r * r <= n /\ (r + 1) * (r + 1) > n

\* Coordinates are counted in steps of 1 / Units.  Math.sqrt(x * x + y * y)
\* < 0.5 is sqrt(4 * (x * x + y * y)) < Units in steps, and a square root is
\* below a whole number exactly when its floor is.
circleLabelClosed(x, y) == IF FloorSqrt(4 * (x * x + y * y)) <= Units THEN 1 ELSE 0

circleLabel(x, y) == IF FloorSqrt(4 * (x * x + y * y)) < Units THEN 1 ELSE 0

generateXORData ==
    [generator |-> "generateXORData", inputShape |-> 2,
     points |-> <<<<0, 0>>, <<0, Units>>, <<Units, 0>>, <<Units, Units>>>>,
     labels |-> <<0, 1, 1, 0>>]

\* samples: the points Math.random yields, in the order of the loop
generateCircleData(samples) ==
    [generator |-> "generateCircleData", inputShape |-> 2,
     points |-> samples,
     labels |-> [i \in DOMAIN samples |-> circleLabel(samples[i][1], samples[i][2])]]

\* the private generator of NeuralNetworkModel, used by trainOnCircleData
modelGenerateCircleData(samples) ==
    [generator |-> "NeuralNetworkModel.generateCircleData", inputShape |-> 2,
     points |-> samples,
     labels |-> [i \in DOMAIN samples |-> circleLabel(samples[i][1], samples[i][2])]]

\* the values of the noisy cubic and of the random images are not followed
generateRegressionData ==
    [generator |-> "generateRegressionData", inputShape |-> 1,
     points |-> <<>>, labels |-> <<>>]

loadMNISTSubset ==
    [generator |-> "loadMNISTSubset", inputShape |-> 784,
     points |-> <<>>, labels |-> <<>>]

\* the switch of getDatasetByName with a default that returns nothing
datasetByNameStrict(name, samples) ==
    IF name = "xor" THEN generateXORData
    ELSE IF name = "circle" THEN generateCircleData(samples)
    ELSE IF name = "regression" THEN generateRegressionData
    ELSE IF name = "mnist" THEN loadMNISTSubset
    ELSE NoDataset

\* the switch of getDatasetByName
datasetByName(name, samples) ==
    IF name = "xor" THEN generateXORData
    ELSE IF name = "circle" THEN generateCircleData(samples)
    ELSE IF name = "regression" THEN generateRegressionData
    ELSE IF name = "mnist" THEN loadMNISTSubset
    ELSE generateXORData

\* getDatasetByName: a record of two tensors
getDatasetByName(s, name, samples) ==
    [s EXCEPT !.liveData = @ + 1, !.dataset = datasetByName(name, samples)]

\* the sample of a training session: its points are not followed there
TrainingSample == <<<<0, 0>>>>

\* the controls hand over a new parameter record
handleParametersChange(s, p) == [s EXCEPT !.parameters = p]

handleDatasetChange(s, d) ==
    [s EXCEPT !.selectedDataset = d, !.currentEpoch = 0, !.history = NoHistory]

\* handleStartTraining without the reset of the training metrics
handleStartTrainingKeep(s, r, ok) ==
    LET s0 == getDatasetByName(s, s.selectedDataset, TrainingSample)
        s1 == [s0 EXCEPT !.appIsTraining = TRUE]
        s2 == IF app = "A"
              THEN (IF s1.model = NoModel THEN createModel(s1, s1.parameters) ELSE s1)
              ELSE createModel(s1, s1.parameters)
    IN  IF app = "B" /\ s.selectedDataset = "mnist"
        THEN [s2 EXCEPT !.appIsTraining = FALSE]
        ELSE trainBegin(s2, r, TrainTask(s.selectedDataset), s2.parameters, ok)

\* handleStartTraining from the click to the first await that yields to the
\* task queue; r is the slot of the train call it makes
handleStartTraining(s, r, ok) ==
    LET s0 == getDatasetByName(s, s.selectedDataset, TrainingSample)
        s1 == [s0 EXCEPT !.appIsTraining = TRUE, !.currentEpoch = 0,
                         !.history = NoHistory]
        s2 == IF app = "A"
              THEN (IF s1.model = NoModel THEN createModel(s1, s1.parameters) ELSE s1)
              ELSE createModel(s1, s1.parameters)
    IN  IF app = "B" /\ s.selectedDataset = "mnist"
        THEN [s2 EXCEPT !.appIsTraining = FALSE]
        ELSE trainBegin(s2, r, TrainTask(s.selectedDataset), s2.parameters, ok)

\* The button shows Start: the user sets the dataset selector and the
\* parameter controls (or leaves them) and clicks it.
StartClick(d, p, ok) ==
    /\ mounted
    /\ ~appIsTraining
    /\ starts < MaxStarts
    /\ scopeDepth < MaxDepth
    /\ FreeSlots(Cur) # {}
    /\ CanStep(0)
    /\ LET r == CHOOSE x \in FreeSlots(Cur) : \A y \in FreeSlots(Cur) : x <= y
           s0 == Tick(Cur, r)
           s1 == IF d # selectedDataset THEN handleDatasetChange(s0, d) ELSE s0
           s2 == IF p # parameters THEN handleParametersChange(s1, p) ELSE s1
       IN  Apply(handleStartTraining(s2, r, ok))
    /\ starts' = starts + 1
    /\ UNCHANGED <<variant, app, lastPredict, draw, event, mounted>>

\* the button shows Stop and is not disabled: handleStopTraining
StopNoted(s, r) ==
    IF Active(s.runs[r])
    THEN LogOnce(s, r, "stopreq", Count(s.runs[r].log, "epoch")).runs[r]
    ELSE s.runs[r]

handleStopTrainingAbort(s) ==
    [s EXCEPT !.shouldStopTraining = TRUE, !.isTraining = FALSE,
              !.runs = [r \in Slots |-> StopNoted(s, r)]]

handleStopTraining(s) ==
    [s EXCEPT !.shouldStopTraining = TRUE,
              !.runs = [r \in Slots |-> StopNoted(s, r)]]

StopClick ==
    /\ mounted
    /\ appIsTraining
    /\ ~(currentEpoch >= parameters.epochs)
    /\ Apply(handleStopTraining(Cur))
    /\ UNCHANGED <<variant, app, starts, lastPredict, draw, event, mounted>>

\* The awaited frame arrived: fit ends, or goes on to the next epoch.  Frame
\* callbacks run in the order in which they were requested.
FitResume(r, ok) ==
    /\ runs[r].pc = "frame"
    /\ frames # <<>> /\ Head(frames) = r
    /\ CanStep(r)
    /\ LET R == runs[r]
           s == [Tick(Cur, r) EXCEPT !.frames = Tail(@)]
       IN  IF stopFlag(s, r) \/ R.ep + 1 >= remainingEpochs(R.run, R.epochs)
           THEN Apply(fitReturn(s, r))
           ELSE Apply(runEpoch([s EXCEPT !.runs[r].ep = @ + 1], r, ok))
    /\ UNCHANGED <<variant, app, starts, lastPredict, draw, event, mounted>>

\* the timer between two chunks fired
PauseEnd(r, ok) ==
    /\ runs[r].pc = "pause"
    /\ CanStep(r)
    /\ LET R == runs[r]
           s == Tick(Cur, r)
       IN  IF R.run + 1 < totalRuns(R.epochs)
           THEN Apply(beginChunk(s, r, R.run + 1, ok))
           ELSE Apply(trainEnd(s, r))
    /\ UNCHANGED <<variant, app, starts, lastPredict, draw, event, mounted>>

\* the App is unmounted: the cleanup of its mount effect
Unmount ==
    /\ mounted
    /\ CanStep(0)
    /\ mounted' = FALSE
    /\ Apply(dispose(Tick(Cur, 0)))
    /\ UNCHANGED <<variant, app, starts, lastPredict, draw, event>>

\* the parameter records of a session that edits only the epochs slider
EpochRecords ==
    [layers : {2}, neuronsPerLayer : {<<8, 8>>}, epochs : EpochRange,
     batchSize : {defaultBatchSize}]

Init ==
    /\ variant \in Variants
    /\ app \in Apps
    /\ parameters \in EpochRecords
    /\ mounted = TRUE
    /\ liveModels = 0
    /\ liveData = 0
    /\ selectedDataset = "xor"
    /\ appIsTraining = FALSE
    /\ currentEpoch = 0
    /\ model = NoModel
    /\ isTraining = FALSE
    /\ shouldStopTraining = FALSE
    /\ scopeDepth = 0
    /\ runs = [r \in Slots |-> IdleRun]
    /\ frames = <<>>
    /\ starts = 0
    /\ lastPredict = NoResult
    /\ draw = NoDraw
    /\ dataset = NoDataset
    /\ history = NoHistory
    /\ event = NoEvent

Next ==
    \/ \E d \in Datasets, p \in EpochRecords, ok \in BOOLEAN : StartClick(d, p, ok)
    \/ StopClick
    \/ Unmount
    \/ \E r \in Slots, ok \in BOOLEAN : FitResume(r, ok)
    \/ \E r \in Slots, ok \in BOOLEAN : PauseEnd(r, ok)

Spec == Init /\ [][Next]_vars

\* The browser runs every requested frame callback and fires every timer: a
\* fit call that waits for a frame goes on (or throws), a pause between two
\* chunks ends.
Fairness ==
    /\ WF_vars(\E r \in Slots, ok \in BOOLEAN : FitResume(r, ok))
    /\ WF_vars(\E r \in Slots, ok \in BOOLEAN : PauseEnd(r, ok))

(* ------------------------------------------- sessions that edit the layers *)
\* parameter records with 1..MaxLayers layers of 4 or 8 neurons
LayerRecords(E) ==
    UNION {[layers : {l}, neuronsPerLayer : [1..l -> {4, 8}], epochs : E,
            batchSize : {defaultBatchSize}]
           : l \in 1..MaxLayers}

\* one record per layer count, with neuron counts 4, 8, ...
RebuildRecords ==
    {[layers |-> l, neuronsPerLayer |-> [i \in 1..l |-> 4 * i], epochs |-> 3,
      batchSize |-> defaultBatchSize]
     : l \in 1..MaxLayers}

InitRebuild ==
    /\ variant \in Variants
    /\ app \in Apps
    /\ parameters = [layers |-> 2, neuronsPerLayer |-> <<8, 8>>, epochs |-> 3,
                     batchSize |-> defaultBatchSize]
    /\ mounted = TRUE
    /\ liveModels = 0
    /\ liveData = 0
    /\ selectedDataset = "xor"
    /\ appIsTraining = FALSE
    /\ currentEpoch = 0
    /\ model = NoModel
    /\ isTraining = FALSE
    /\ shouldStopTraining = FALSE
    /\ scopeDepth = 0
    /\ runs = [r \in Slots |-> IdleRun]
    /\ frames = <<>>
    /\ starts = 0
    /\ lastPredict = NoResult
    /\ draw = NoDraw
    /\ dataset = NoDataset
    /\ history = NoHistory
    /\ event = NoEvent

NextRebuild ==
    \/ \E d \in Datasets, p \in RebuildRecords, ok \in BOOLEAN : StartClick(d, p, ok)
    \/ StopClick
    \/ Unmount
    \/ \E r \in Slots, ok \in BOOLEAN : FitResume(r, ok)
    \/ \E r \in Slots, ok \in BOOLEAN : PauseEnd(r, ok)

SpecRebuild == InitRebuild /\ [][NextRebuild]_vars

(* ----------------------------------------------------- ParameterControls *)
maxLayers == 5          \* the layers slider's max
maxNeurons == 32        \* a neurons slider's max
defaultNeurons == 8     \* neuron count of an added layer
defaultEpochs == 50     \* epochs of the default parameter record

\* the values a neurons slider is set to
NeuronValues == {1, defaultNeurons, maxNeurons}

\* newNeuronsPerLayer of handleLayersChange without the resizing
handleLayersChangeKeep(s, newLayers) ==
    handleParametersChange(s, [s.parameters EXCEPT !.layers = newLayers])

\* handleLayersChange with the splice taken from the front of the list
handleLayersChangeTail(s, newLayers) ==
    LET p == s.parameters
        old == p.neuronsPerLayer
        newNeuronsPerLayer ==
            IF newLayers > p.layers
            THEN old \o [i \in 1..(newLayers - p.layers) |-> defaultNeurons]
            ELSE IF newLayers < p.layers
            THEN SubSeq(old, Len(old) - Min(newLayers, Len(old)) + 1, Len(old))
            ELSE old
    IN  handleParametersChange(s, [p EXCEPT !.layers = newLayers,
                                            !.neuronsPerLayer = newNeuronsPerLayer])

\* The component's own record and the record it hands to onParametersChange
\* are the same value; parameters holds it.
handleLayersChange(s, newLayers) ==
    LET p == s.parameters
        old == p.neuronsPerLayer
        newNeuronsPerLayer ==
            IF newLayers > p.layers
            THEN old \o [i \in 1..(newLayers - p.layers) |-> defaultNeurons]
            ELSE IF newLayers < p.layers
            THEN SubSeq(old, 1, Min(newLayers, Len(old)))
            ELSE old
    IN  handleParametersChange(s, [p EXCEPT !.layers = newLayers,
                                            !.neuronsPerLayer = newNeuronsPerLayer])

\* layerIndex counts from 0
handleNeuronsChange(s, layerIndex, neurons) ==
    handleParametersChange(s,
        [s.parameters EXCEPT !.neuronsPerLayer[layerIndex + 1] = neurons])

LayersChange(newLayers) ==
    /\ Apply(handleLayersChange(Cur, newLayers))
    /\ UNCHANGED <<variant, app, starts, lastPredict, draw, event, mounted>>

\* the sliders rendered are those of the entries of neuronsPerLayer
NeuronsChange(layerIndex, neurons) ==
    /\ layerIndex < Len(parameters.neuronsPerLayer)
    /\ Apply(handleNeuronsChange(Cur, layerIndex, neurons))
    /\ UNCHANGED <<variant, app, starts, lastPredict, draw, event, mounted>>

InitControls ==
    /\ variant \in Variants
    /\ app \in Apps
    /\ parameters = [layers |-> 2, neuronsPerLayer |-> <<defaultNeurons, defaultNeurons>>,
                     epochs |-> defaultEpochs, batchSize |-> defaultBatchSize]
    /\ mounted = TRUE
    /\ liveModels = 0
    /\ liveData = 0
    /\ selectedDataset = "xor"
    /\ appIsTraining = FALSE
    /\ currentEpoch = 0
    /\ model = NoModel
    /\ isTraining = FALSE
    /\ shouldStopTraining = FALSE
    /\ scopeDepth = 0
    /\ runs = [r \in Slots |-> IdleRun]
    /\ frames = <<>>
    /\ starts = 0
    /\ lastPredict = NoResult
    /\ draw = NoDraw
    /\ dataset = NoDataset
    /\ history = NoHistory
    /\ event = NoEvent

NextControls ==
    \/ \E newLayers \in 1..maxLayers : LayersChange(newLayers)
    \/ \E layerIndex \in 0..(maxLayers - 1), neurons \in NeuronValues :
           NeuronsChange(layerIndex, neurons)

SpecControls == InitControls /\ [][NextControls]_vars

(* ---------------------------------------------------------------- predict *)
\* JavaScript truthiness of a dimension of a shape
Truthy(n) == n # 0

Last(q) == q[Len(q)]

\* model.outputs[0].shape[1]
outputWidth(m) == Last(m.units)

\* tf.Sequential.predict: the runtime rejects a batch of another width than
\* the model's input; ok: no internal error of the runtime
modelPredict(m, rows, width, ok) == ok /\ width = m.inputWidth

\* layers[0].apply(inputs)
inputLayerApply(m, rows, width, ok) == ok /\ width = m.inputWidth

\* layers[layers.length - 1].apply(features): the last layer was built for the
\* output of the layer before it
lastLayerApply(m, rows, featureWidth, ok) ==
    ok /\ featureWidth = m.units[Len(m.units) - 1]

Call(res, name) == [res EXCEPT !.calls = Append(@, name)]

Tier(res, how) == [res EXCEPT !.tiers = Append(@, how)]

Returned(res, rows, width) ==
    [res EXCEPT !.outcome = "returned", !.shape = <<rows, width>>]

\* third approach: the zero-filled batch
tier3(m, res, rows) ==
    LET outputSize == IF Truthy(outputWidth(m)) THEN outputWidth(m) ELSE 1
    IN  Returned(Tier(Call(res, "zeros"), "ok"), rows, outputSize)

\* second approach: the first layer, then the last layer
tier2(m, res, rows, width, okA, okB) ==
    LET r1 == Call(res, "inputLayer.apply")
        r2 == Call([r1 EXCEPT !.features = "live"], "lastLayer.apply")
    IN  IF ~inputLayerApply(m, rows, width, okA)
        THEN tier3(m, Tier(r1, "failed"), rows)
        ELSE IF ~lastLayerApply(m, rows, m.units[1], okB)
        THEN tier3(m, Tier(r2, "failed"), rows)
        ELSE Returned(Tier([r2 EXCEPT !.features = "disposed"], "ok"),
                      rows, outputWidth(m))

\* first approach: the width check, then model.predict
tier1(m, res, rows, width, ok1, okA, okB) ==
    LET r1 == Call(res, "model.predict")
    IN  IF Truthy(m.inputWidth) /\ Truthy(width) /\ m.inputWidth # width
        THEN tier2(m, Tier(res, "failed"), rows, width, okA, okB)
        ELSE IF ~modelPredict(m, rows, width, ok1)
        THEN tier2(m, Tier(r1, "failed"), rows, width, okA, okB)
        ELSE Returned(Tier(r1, "ok"), rows, outputWidth(m))

\* predict of the class with the single fit call: model.predict inside tf.tidy
predictTidy(m, res, rows, width, ok1) ==
    LET r1 == Call(res, "model.predict")
    IN  IF modelPredict(m, rows, width, ok1)
        THEN Returned(Tier(r1, "ok"), rows, outputWidth(m))
        ELSE [Tier(r1, "failed") EXCEPT !.outcome = "threw"]

predict(m, rows, width, ok1, okA, okB) ==
    LET res == [NoResult EXCEPT !.rows = rows, !.width = width]
    IN  IF m = NoModel THEN [res EXCEPT !.outcome = "threw"]
        ELSE LET res1 == [res EXCEPT !.inputWidth = m.inputWidth,
                                     !.declared = outputWidth(m)]
             IN  IF Chunked THEN tier1(m, res1, rows, width, ok1, okA, okB)
                 ELSE predictTidy(m, res1, rows, width, ok1)

ParameterRecords == LayerRecords({batchesPerRun})

\* the models a NeuralNetworkModel can hold
InstalledModels ==
    {NoModel} \cup {DenseModel(p, 2, "sigmoid") : p \in ParameterRecords}
              \cup {DenseModel(p, 1, "linear") : p \in ParameterRecords}

PredictCall(rows, width, ok1, okA, okB) ==
    /\ lastPredict' = predict(model, rows, width, ok1, okA, okB)
    /\ UNCHANGED <<variant, app, parameters, selectedDataset, appIsTraining,
                   currentEpoch, model, isTraining, shouldStopTraining,
                   scopeDepth, runs, frames, starts, draw, dataset, history, event,
                   mounted, liveModels, liveData>>

CreateModelCall(p) ==
    /\ Apply(createModel(Cur, p))
    /\ UNCHANGED <<variant, app, starts, lastPredict, draw, event, mounted>>

DisposeCall ==
    /\ Apply(dispose(Cur))
    /\ UNCHANGED <<variant, app, starts, lastPredict, draw, event, mounted>>

InitPredict ==
    /\ variant \in Variants
    /\ app = "A"
    /\ parameters = [layers |-> 2, neuronsPerLayer |-> <<8, 8>>, epochs |-> batchesPerRun,
                     batchSize |-> defaultBatchSize]
    /\ selectedDataset = "xor"
    /\ appIsTraining = FALSE
    /\ currentEpoch = 0
    /\ isTraining = FALSE
    /\ shouldStopTraining = FALSE
    /\ scopeDepth = 0
    /\ runs = [r \in Slots |-> IdleRun]
    /\ frames = <<>>
    /\ starts = 0
    /\ lastPredict = NoResult
    /\ draw = NoDraw
    /\ dataset = NoDataset
    /\ history = NoHistory
    /\ event = NoEvent
    /\ model \in InstalledModels
    /\ mounted = TRUE
    /\ liveModels = (IF model = NoModel THEN 0 ELSE 1)
    /\ liveData = 0

NextPredict ==
    \/ \E rows \in 1..MaxRows, width \in 0..MaxWidth, ok1, okA, okB \in BOOLEAN :
           PredictCall(rows, width, ok1, okA, okB)
    \/ \E p \in ParameterRecords : CreateModelCall(p)
    \/ DisposeCall

SpecPredict == InitPredict /\ [][NextPredict]_vars

(* -------------------------------------------------- the epoch callbacks *)
\* the log records a runtime may hand over
LogRecords ==
    [loss : {"number", "absent"}, acc : {"number", "absent"},
     accuracy : {"number", "absent"}, mse : {"number", "absent"}]

\* the driver's onEpochEnd callback of the task's train call, called by the
\* runtime after epoch currentEpoch with the log record logs
ReportEpoch(task, logs) ==
    /\ currentEpoch < MaxReports
    /\ Apply(onEpochEnd(Cur, currentEpoch, forwarded(task, logs)))
    /\ event' = [task |-> task, logs |-> logs, forwarded |-> forwarded(task, logs)]
    /\ UNCHANGED <<variant, app, starts, lastPredict, draw, mounted>>

InitMetrics ==
    /\ variant \in Variants
    /\ app \in Apps
    /\ parameters = [layers |-> 2, neuronsPerLayer |-> <<8, 8>>, epochs |-> batchesPerRun,
                     batchSize |-> defaultBatchSize]
    /\ selectedDataset = "xor"
    /\ appIsTraining = FALSE
    /\ currentEpoch = 0
    /\ isTraining = FALSE
    /\ shouldStopTraining = FALSE
    /\ scopeDepth = 0
    /\ runs = [r \in Slots |-> IdleRun]
    /\ frames = <<>>
    /\ starts = 0
    /\ lastPredict = NoResult
    /\ draw = NoDraw
    /\ dataset = NoDataset
    /\ history = NoHistory
    /\ event = NoEvent
    /\ model = NoModel
    /\ mounted = TRUE
    /\ liveModels = 0
    /\ liveData = 0

NextMetrics == \E task \in Tasks, logs \in LogRecords : ReportEpoch(task, logs)

SpecMetrics == InitMetrics /\ [][NextMetrics]_vars

(* ------------------------------------------------------ DatasetGenerator *)
\* the keys handed to getDatasetByName: the four of the selector and others
Keys == Datasets \cup {"spiral", ""}

\* Math.random() * 2 - 1 lies in [-1, 1)
Coordinates == (0 - Units)..(Units - 1)

\* The samples of the calls are enumerated by length: a call of a circle
\* generator draws the points of the generator's previous sample and one more.
Samples(generator) ==
    LET before == IF dataset.generator = generator THEN dataset.points ELSE <<>>
    IN  IF Len(before) >= MaxSamples THEN {}
        ELSE {Append(before, pt) : pt \in Coordinates \X Coordinates}

GetDataset(name, samples) ==
    /\ liveData < MaxFetches
    /\ Apply(getDatasetByName(Cur, name, samples))
    /\ UNCHANGED <<variant, app, starts, lastPredict, draw, event, mounted>>

GenerateCircleData(samples) ==
    /\ Apply([Cur EXCEPT !.dataset = modelGenerateCircleData(samples)])
    /\ UNCHANGED <<variant, app, starts, lastPredict, draw, event, mounted>>

InitData ==
    /\ variant = "chunked"
    /\ app = "A"
    /\ parameters = [layers |-> 2, neuronsPerLayer |-> <<8, 8>>, epochs |-> batchesPerRun,
                     batchSize |-> defaultBatchSize]
    /\ selectedDataset = "xor"
    /\ appIsTraining = FALSE
    /\ currentEpoch = 0
    /\ isTraining = FALSE
    /\ shouldStopTraining = FALSE
    /\ scopeDepth = 0
    /\ runs = [r \in Slots |-> IdleRun]
    /\ frames = <<>>
    /\ starts = 0
    /\ lastPredict = NoResult
    /\ draw = NoDraw
    /\ dataset = NoDataset
    /\ history = NoHistory
    /\ event = NoEvent
    /\ model = NoModel
    /\ mounted = TRUE
    /\ liveModels = 0
    /\ liveData = 0

NextData ==
    \/ \E name \in Keys \ {"circle"} : GetDataset(name, <<>>)
    \/ \E samples \in Samples("generateCircleData") : GetDataset("circle", samples)
    \/ \E samples \in Samples("NeuralNetworkModel.generateCircleData") :
           GenerateCircleData(samples)

SpecData == InitData /\ [][NextData]_vars

\* a session of Start clicks with any key as the selected dataset
KeyStart(d, ok) == StartClick(d, parameters, ok)

NextKeys ==
    \/ \E d \in Keys, ok \in BOOLEAN : KeyStart(d, ok)
    \/ \E r \in Slots, ok \in BOOLEAN : FitResume(r, ok)
    \/ \E r \in Slots, ok \in BOOLEAN : PauseEnd(r, ok)

SpecKeys == Init /\ [][NextKeys]_vars

\* a session of Start and Stop clicks on the parameter record it began with,
\* in a browser that runs its frames and timers
NextSession ==
    \/ \E d \in Datasets, ok \in BOOLEAN : KeyStart(d, ok)
    \/ StopClick
    \/ \E r \in Slots, ok \in BOOLEAN : FitResume(r, ok)
    \/ \E r \in Slots, ok \in BOOLEAN : PauseEnd(r, ok)

SpecFair == Init /\ [][NextSession]_vars /\ Fairness

\* The dataset selector is enabled at all times: a session in which the user
\* also picks another dataset while a train call is in progress.
SelectDataset(d) ==
    /\ mounted
    /\ d # selectedDataset
    /\ Apply(handleDatasetChange(Cur, d))
    /\ UNCHANGED <<variant, app, starts, lastPredict, draw, event, mounted>>

NextSelect ==
    \/ \E d \in Datasets, ok \in BOOLEAN : KeyStart(d, ok)
    \/ \E d \in Datasets : SelectDataset(d)
    \/ StopClick
    \/ \E r \in Slots, ok \in BOOLEAN : FitResume(r, ok)
    \/ \E r \in Slots, ok \in BOOLEAN : PauseEnd(r, ok)

SpecSelect == Init /\ [][NextSelect]_vars

\* Calls of the public methods of NeuralNetworkModel by a caller that awaits
\* a train call before it makes the next: a train operation with the
\* parameter record and the App's callbacks, and stopTraining() at any time,
\* also while no train call is in progress.
TrainCall(task, ok) ==
    /\ \A q \in Slots : ~Active(runs[q])
    /\ starts < MaxStarts
    /\ scopeDepth < MaxDepth
    /\ FreeSlots(Cur) # {}
    /\ CanStep(0)
    /\ LET r == CHOOSE x \in FreeSlots(Cur) : \A y \in FreeSlots(Cur) : x <= y
       IN  Apply(trainBegin(Tick(Cur, r), r, task, parameters, ok))
    /\ starts' = starts + 1
    /\ UNCHANGED <<variant, app, lastPredict, draw, event, mounted>>

StopTrainingCall ==
    /\ Apply(handleStopTraining(Cur))
    /\ UNCHANGED <<variant, app, starts, lastPredict, draw, event, mounted>>

NextStop ==
    \/ \E task \in Tasks, ok \in BOOLEAN : TrainCall(task, ok)
    \/ StopTrainingCall
    \/ \E r \in Slots, ok \in BOOLEAN : FitResume(r, ok)
    \/ \E r \in Slots, ok \in BOOLEAN : PauseEnd(r, ok)

SpecStop == Init /\ [][NextStop]_vars

(* --------------------------------------------- DecisionBoundaryVisualizer *)
canvasWidth == 400      \* the canvas element's width attribute
canvasHeight == 400     \* the canvas element's height attribute
resolution == 10        \* side of a grid cell in pixels
numPoints == 50         \* angles of the circle sample drawn over the grid

\* the datasets the component renders a canvas for
Rendered == {"xor", "circle"}

\* a coordinate of feature space, kept as an exact fraction
Frac(n, d) == [num |-> n, den |-> d]

\* (pixel / size) * 2 - 1
scaled(pixel, size) == Frac(2 * pixel - size, size)

\* ((f + 1) / 2) * size
canvasCoord(f, size) == Frac((f.num + f.den) * size, 2 * f.den)

\* the values v takes in  for (v = 0; v < size; v += resolution)
Ticks(size) == [i \in 1..Ceil(size, resolution) |-> (i - 1) * resolution]

\* the rows pushed by the input loop: x outside, y inside
gridPoints(w, h) ==
    LET xs == Ticks(w)
        ys == Ticks(h)
    IN  [k \in 1..(Len(xs) * Len(ys)) |->
            <<scaled(xs[((k - 1) \div Len(ys)) + 1], w),
              scaled(ys[((k - 1) % Len(ys)) + 1], h)>>]

\* predictions.dataSync(): the batch flattened row by row; a value carries
\* the input row it is the prediction of
dataSync(res) ==
    LET rows == res.shape[1]
        width == res.shape[2]
    IN  [j \in 1..(rows * width) |->
            [row |-> ((j - 1) \div width) + 1,
             from |-> IF \E c \in DOMAIN res.calls : res.calls[c] = "zeros"
                      THEN "zeros" ELSE "model"]]

\* the paint loop with the y loop outside
paintGridRows(w, h, predValues) ==
    LET xs == Ticks(w)
        ys == Ticks(h)
    IN  [i \in 1..(Len(xs) * Len(ys)) |->
            [x |-> xs[((i - 1) % Len(xs)) + 1],
             y |-> ys[((i - 1) \div Len(xs)) + 1],
             value |-> IF i <= Len(predValues) THEN predValues[i]
                       ELSE [row |-> 0, from |-> "undefined"]]]

\* the fillRect calls of the paint loop in order, each with predValues[i++]
paintGrid(w, h, predValues) ==
    LET xs == Ticks(w)
        ys == Ticks(h)
    IN  [i \in 1..(Len(xs) * Len(ys)) |->
            [x |-> xs[((i - 1) \div Len(ys)) + 1],
             y |-> ys[((i - 1) % Len(ys)) + 1],
             value |-> IF i <= Len(predValues) THEN predValues[i]
                       ELSE [row |-> 0, from |-> "undefined"]]]

Paint(d, what) == [d EXCEPT !.canvas = Append(@, what)]

\* the fallback of the inner catch: gradient background and message box
paintFallback(d) == Paint(Paint(d, "gradient"), "message")

\* the overlay of the outer catch
paintError(d) == Paint(d, "error")

\* dataPoints.length for the dataset the draw was started with
dataPointCount(key) ==
    IF key = "xor" THEN 4
    ELSE IF key = "circle" THEN 2 * numPoints
    ELSE 0

\* the loop over dataPoints draws one disc per point
drawPoints(d) ==
    IF dataPointCount(d.dataset) > 0 THEN Paint(d, "points") ELSE d

\* what the App hands over as the model prop
modelProp == IF app = "A" THEN "wrapper" ELSE IF model = NoModel THEN "null" ELSE "tf"

\* model.predict(inputs) of the prop: the wrapper's predict, or the runtime's
propPredict(rows, ok1, okA, okB) ==
    IF app = "A" THEN predict(model, rows, 2, ok1, okA, okB)
    ELSE predictTidy(model,
                     [NoResult EXCEPT !.rows = rows, !.width = 2,
                                      !.inputWidth = model.inputWidth,
                                      !.declared = outputWidth(model)],
                     rows, 2, ok1)

\* drawBoundary up to its first await. The canvas exists when the component
\* rendered with shouldRender true; the effect before this one has already
\* asked for shouldRender of the current dataset.
drawBoundaryBegin(d, key, okTensor, ok1, okA, okB) ==
    LET hasCanvas == d.shouldRender
        d0 == [NoDraw EXCEPT !.shouldRender = key \in Rendered,
                             !.dataset = key]
        grid == gridPoints(canvasWidth, canvasHeight)
        res == propPredict(Len(grid), ok1, okA, okB)
        d1 == [d0 EXCEPT !.cleared = TRUE, !.connected = TRUE]
    IN  IF ~hasCanvas \/ modelProp = "null"
        THEN [d0 EXCEPT !.pc = "skipped"]
        ELSE IF ~okTensor
        THEN [paintError(d1) EXCEPT !.pc = "done", !.gridPoints = grid,
                                    !.error = "tensor2d"]
        ELSE [d1 EXCEPT !.pc = "awaiting", !.gridPoints = grid,
                        !.inputs = "live", !.result = res,
                        !.predictions = IF res.outcome = "returned"
                                        THEN "live" ELSE "none"]

\* drawBoundary with an inner catch that only logs
drawBoundaryResumeSilent(d, okSync) ==
    IF d.result.outcome # "returned" \/ ~okSync
    THEN [d EXCEPT !.pc = "done",
                   !.error = IF d.result.outcome # "returned"
                             THEN "predict" ELSE "dataSync"]
    ELSE IF ~d.connected
    THEN [d EXCEPT !.pc = "done", !.inputs = "disposed",
                   !.predictions = "disposed"]
    ELSE LET predValues == dataSync(d.result)
             d1 == [Paint(d, "grid") EXCEPT
                       !.fills = paintGrid(canvasWidth, canvasHeight, predValues),
                       !.inputs = "disposed", !.predictions = "disposed"]
         IN  [drawPoints(d1) EXCEPT !.pc = "done"]

\* drawBoundary from the await to its end
drawBoundaryResume(d, okSync) ==
    IF d.result.outcome # "returned" \/ ~okSync
    THEN [drawPoints(paintFallback(d)) EXCEPT
             !.pc = "done",
             !.error = IF d.result.outcome # "returned"
                       THEN "predict" ELSE "dataSync"]
    ELSE IF ~d.connected
    THEN [d EXCEPT !.pc = "done", !.inputs = "disposed",
                   !.predictions = "disposed"]
    ELSE LET predValues == dataSync(d.result)
             d1 == [Paint(d, "grid") EXCEPT
                       !.fills = paintGrid(canvasWidth, canvasHeight, predValues),
                       !.inputs = "disposed", !.predictions = "disposed"]
         IN  [drawPoints(d1) EXCEPT !.pc = "done"]

\* the effects that follow a render
DrawBegin(okTensor, ok1, okA, okB) ==
    /\ draw.pc # "awaiting"
    /\ draw' = drawBoundaryBegin(draw, selectedDataset, okTensor, ok1, okA, okB)
    /\ UNCHANGED <<variant, app, parameters, selectedDataset, appIsTraining,
                   currentEpoch, model, isTraining, shouldStopTraining,
                   scopeDepth, runs, frames, starts, lastPredict, mounted,
                   liveModels, liveData, dataset, history, event>>

DrawResume(okSync) ==
    /\ draw.pc = "awaiting"
    /\ draw' = drawBoundaryResume(draw, okSync)
    /\ UNCHANGED <<variant, app, parameters, selectedDataset, appIsTraining,
                   currentEpoch, model, isTraining, shouldStopTraining,
                   scopeDepth, runs, frames, starts, lastPredict, mounted,
                   liveModels, liveData, dataset, history, event>>

\* the render that follows setShouldRender(false) takes the canvas out of
\* the document
CanvasRemoved ==
    /\ draw.pc = "awaiting"
    /\ draw.connected
    /\ ~draw.shouldRender
    /\ draw' = [draw EXCEPT !.connected = FALSE]
    /\ UNCHANGED <<variant, app, parameters, selectedDataset, appIsTraining,
                   currentEpoch, model, isTraining, shouldStopTraining,
                   scopeDepth, runs, frames, starts, lastPredict, mounted,
                   liveModels, liveData, dataset, history, event>>

DatasetClick(d) ==
    /\ Apply(handleDatasetChange(Cur, d))
    /\ UNCHANGED <<variant, app, starts, lastPredict, draw, event, mounted>>

\* no model yet, the classifier or the regression model of the default record
DrawModels ==
    LET p == [layers |-> 2, neuronsPerLayer |-> <<8, 8>>, epochs |-> batchesPerRun,
                     batchSize |-> defaultBatchSize]
    IN  {NoModel, DenseModel(p, 2, "sigmoid"), DenseModel(p, 1, "linear")}

InitDraw ==
    /\ variant \in Variants
    /\ app \in Apps
    /\ parameters = [layers |-> 2, neuronsPerLayer |-> <<8, 8>>, epochs |-> batchesPerRun,
                     batchSize |-> defaultBatchSize]
    /\ selectedDataset = "xor"
    /\ appIsTraining = FALSE
    /\ currentEpoch = 0
    /\ isTraining = FALSE
    /\ shouldStopTraining = FALSE
    /\ scopeDepth = 0
    /\ runs = [r \in Slots |-> IdleRun]
    /\ frames = <<>>
    /\ starts = 0
    /\ lastPredict = NoResult
    /\ draw = NoDraw
    /\ dataset = NoDataset
    /\ history = NoHistory
    /\ event = NoEvent
    /\ model \in DrawModels
    /\ mounted = TRUE
    /\ liveModels = (IF model = NoModel THEN 0 ELSE 1)
    /\ liveData = 0

NextDraw ==
    \/ \E d \in Datasets : DatasetClick(d)
    \/ \E okTensor, ok1, okA, okB \in BOOLEAN : DrawBegin(okTensor, ok1, okA, okB)
    \/ CanvasRemoved
    \/ \E okSync \in BOOLEAN : DrawResume(okSync)

SpecDraw == InitDraw /\ [][NextDraw]_vars

TypeOK ==
    /\ variant \in Variants
    /\ app \in Apps
    /\ scopeDepth \in 0..(MaxDepth + 1)
    /\ \A r \in Slots : runs[r].pc \in {"idle", "frame", "pause", "done"}

(* ------------------------------------------------------------ properties *)
Sel(log, kind) == SelectSeq(log, LAMBDA e : e.kind = kind)

RECURSIVE SumN(_)
SumN(q) == IF q = <<>> THEN 0 ELSE Head(q).n + SumN(Tail(q))

\* the train call settled by resolving
Resolved(R) == R.pc = "done" /\ R.rejected = "none"

\* stopTraining() was called while the train call was in progress
Cancelled(R) == Has(R.log, "stopreq")

Before(log, a, b) ==
    \A i, j \in DOMAIN log : log[i].kind = a /\ log[j].kind = b => i < j

\* C1: a train call that ends without an error has invoked onTrainingComplete
\* exactly once, and has delivered no onEpochEnd after it.
C1_CompleteOnce ==
    \A r \in Slots :
        Resolved(runs[r]) =>
            /\ Count(runs[r].log, "complete") = 1
            /\ Before(runs[r].log, "epoch", "complete")

\* C2: a train call with epochs N that is neither cancelled nor failing
\* delivers the onEpochEnd indices 0, 1, ..., N-1 in this order, each once,
\* also across chunk boundaries and when N is not a multiple of the chunk size.
C2_EpochIndices ==
    \A r \in Slots :
        LET R == runs[r]
            E == Sel(R.log, "epoch")
        IN  (~Cancelled(R) /\ R.rejected = "none") =>
                /\ \A i \in DOMAIN E : E[i].n = i - 1
                /\ Len(E) <= R.epochs
                /\ Resolved(R) => Len(E) = R.epochs

C2_Witness ==
    \E r \in Slots :
        /\ Chunked /\ Resolved(runs[r]) /\ ~Cancelled(runs[r])
        /\ runs[r].epochs > batchesPerRun
        /\ runs[r].epochs % batchesPerRun # 0
        /\ Count(runs[r].log, "epoch") = runs[r].epochs

\* C3: every fit call of a train call asks for min(5, epochs - 5 * chunkIndex)
\* epochs, a number from 1 to 5, and the numbers asked for by a train call
\* that is neither cancelled nor failing add up to epochs.
C3_ChunkSizes ==
    \A r \in Slots :
        LET R == runs[r]
            F == Sel(R.log, "fit")
        IN  /\ \A k \in DOMAIN F :
                /\ F[k].n = Min(batchesPerRun, R.epochs - batchesPerRun * (k - 1))
                /\ F[k].n \in 1..batchesPerRun
            /\ (Resolved(R) /\ ~Cancelled(R)) => SumN(F) = R.epochs

\* C4: at most one train call of the NeuralNetworkModel instance is in
\* progress at any time.
C4_OneActiveRun == Cardinality({r \in Slots : Active(runs[r])}) <= 1

\* C5: after the per-epoch callback of a train call has seen a stop request,
\* the train call makes no further fit call.
C5_NoFitAfterStopSeen ==
    \A r \in Slots : Before(runs[r].log, "fit", "stopseen")

\* C6: a train call with epochs N during which stopTraining() was called
\* while at least two of its epochs had not begun delivers fewer than N
\* onEpochEnd events.
C6_StopShortens ==
    \A r \in Slots :
        LET R == runs[r]
            Q == Sel(R.log, "stopreq")
        IN  (Resolved(R) /\ Q # <<>> /\ Q[1].n <= R.epochs - 2) =>
                Count(R.log, "epoch") < R.epochs

\* C7: when a trainOnXOR call of the chunked driver settles, by resolving or
\* by rejecting, every scope its chunks opened is closed and both clones of
\* the last chunk are disposed.
C7_ScopeBalanced ==
    \A r \in Slots :
        (runs[r].pc = "done" /\ ScopedXOR(runs[r].task)) =>
            /\ runs[r].scopes = 0
            /\ ~runs[r].clones

\* C8: when fit throws in chunk k of a train call, the train call is over: it
\* has made exactly k + 1 fit calls (no later chunk, no retry), its base
\* dataset is disposed, and it rejects with the error fit threw.
C8_FailFast ==
    \A r \in Slots :
        LET R == runs[r]
        IN  R.thrown # "none" =>
                /\ R.pc = "done"
                /\ R.rejected = R.thrown
                /\ ~R.base
                /\ Count(R.log, "fit") = R.run + 1

C8_Witness ==
    \E r \in Slots :
        /\ runs[r].thrown = "internal" /\ runs[r].pc = "done"
        /\ runs[r].run >= 1
        /\ runs[r].run + 1 < totalRuns(runs[r].epochs)

\* C9: predict does not throw: whatever the model state and the input batch,
\* it returns a batch with the rows of the input batch and the declared output
\* width of the model.
C9_PredictTotal ==
    lastPredict.outcome # "none" =>
        /\ lastPredict.outcome = "returned"
        /\ lastPredict.shape = <<lastPredict.rows, lastPredict.declared>>

\* C10: the tiered predict runs its tiers in order: no model.predict call for
\* a batch of another width than the model's input, the layer pair only after
\* the first tier failed, the zero-filled batch [rows, output width] only
\* after the second tier failed, and no tier after a tier that succeeded.
C10_TiersInOrder ==
    LET res == lastPredict
        made == {res.calls[i] : i \in DOMAIN res.calls}
    IN  (Chunked /\ res.outcome = "returned") =>
            /\ res.width # res.inputWidth => "model.predict" \notin made
            /\ "inputLayer.apply" \in made => (Len(res.tiers) >= 2 /\ res.tiers[1] = "failed")
            /\ "zeros" \in made =>
                  /\ Len(res.tiers) = 3 /\ res.tiers[2] = "failed"
                  /\ res.shape = <<res.rows, res.declared>>
            /\ \A i \in DOMAIN res.tiers : res.tiers[i] = "ok" => i = Len(res.tiers)

\* C11: when predict has returned, the batch produced by the first layer in
\* the second approach is disposed, also when the last layer threw on it.
C11_FeaturesReleased ==
    lastPredict.outcome # "none" => lastPredict.features # "live"

\* C12: at most one created tf.Sequential is undisposed, and it is the
\* installed one: createModel and trainOnRegressionData dispose the installed
\* model before they install another, and after dispose none is installed.
C12_OneLiveModel ==
    /\ liveModels = (IF model = NoModel THEN 0 ELSE 1)
    /\ ~mounted => model = NoModel

C12_Witness ==
    /\ app = "B" /\ starts >= 2
    /\ ~mounted /\ liveModels = 0

\* C13: the installed model, built by createModel or by trainOnRegressionData
\* from a record with len(neuronsPerLayer) = layers >= 1, has layers + 1 dense
\* layers whose unit counts are neuronsPerLayer in order, followed by 1.
C13_LayerStack ==
    model # NoModel =>
        LET b == model.built
        IN  /\ Len(model.units) = b.layers + 1
            /\ \A i \in 1..b.layers : model.units[i] = b.neuronsPerLayer[i]
            /\ model.units[b.layers + 1] = 1

C13_Witness ==
    /\ model # NoModel
    /\ model.head = "linear" /\ model.built.layers = 1
    /\ \E r \in Slots : runs[r].task = "regression" /\ Active(runs[r])

\* C14: every fit call of a train call started by a Start click is made on a
\* model whose layers have the unit counts of the parameter record that was
\* current at the click, followed by the head's single unit.
C14_TrainsCurrentRecord ==
    \A r \in Slots :
        runs[r].fitOn # NoModel =>
            runs[r].fitOn.units = runs[r].params \o <<1>>

\* C15: the model a train call calls fit on has input width 2 and a
\* single-unit sigmoid head when the task is xor or circle, and input width 1
\* and a single-unit linear head when the task is regression.
C15_ModelFitsTask ==
    \A r \in Slots :
        LET R == runs[r]
        IN  R.fitOn # NoModel =>
                /\ Last(R.fitOn.units) = 1
                /\ R.task \in {"xor", "circle"} =>
                       (R.fitOn.inputWidth = 2 /\ R.fitOn.head = "sigmoid")
                /\ R.task = "regression" =>
                       (R.fitOn.inputWidth = 1 /\ R.fitOn.head = "linear")

\* C16: what the caller of a train call observes tells the outcomes apart: a
\* train call that ended because its callback saw a stop request is not
\* reported as completed, and a train call whose fit threw rejects with the
\* error fit threw.
C16_OutcomesDistinct ==
    \A r \in Slots :
        LET R == runs[r]
        IN  R.pc = "done" =>
                /\ (Resolved(R) /\ Has(R.log, "stopseen")) => ~Has(R.log, "complete")
                /\ R.thrown # "none" => R.rejected = R.thrown

\* C17: a train call in progress makes a further fit call only in a step that
\* starts from its timer pause: between the return of one chunk's fit call
\* and the next chunk's fit call the train call has yielded to the task queue.
C17_YieldBetweenChunks ==
    [][\A r \in Slots :
          (Active(runs[r]) /\ Count(runs'[r].log, "fit") > Count(runs[r].log, "fit"))
              => runs[r].pc = "pause"]_vars

C17_Witness ==
    \E r \in Slots :
        /\ runs[r].pc = "frame"
        /\ Count(runs[r].log, "fit") >= 3
        /\ runs[r].task = "xor"

\* a step that raises the stop flag changes nothing else of the model object
\* and of the train calls
C18_StopOnlyFlags ==
    (~shouldStopTraining /\ shouldStopTraining') =>
        /\ model' = model
        /\ isTraining' = isTraining
        /\ frames' = frames
        /\ \A r \in Slots :
              /\ runs'[r].pc = Reclaim(runs)[r].pc
              /\ runs'[r].ep = Reclaim(runs)[r].ep
              /\ runs'[r].run = Reclaim(runs)[r].run
              /\ runs'[r].attached = Reclaim(runs)[r].attached

\* fit is signalled to stop in a step that delivers an onEpochEnd event
C18_SignalInCallback ==
    (model # NoModel /\ model' # NoModel
       /\ ~model.stopTraining /\ model'.stopTraining) =>
        \E r \in Slots :
            /\ Active(runs[r])
            /\ Count(runs'[r].log, "epoch") = Count(runs[r].log, "epoch") + 1

\* the callback sees the request right after delivering the epoch's event
C18_EpochDelivered ==
    \A r \in Slots :
        \A i \in DOMAIN runs[r].log :
            runs[r].log[i].kind = "stopseen" =>
                /\ i > 1
                /\ runs[r].log[i - 1] = [kind |-> "epoch", n |-> runs[r].log[i].n]

\* C18: cancellation is cooperative.  stopTraining() changes only the stop
\* flag (model, training flag and the train calls' positions stay as they
\* are); the fit is signalled to stop only inside the per-epoch callback; and
\* the epoch during which the stop was requested still delivers its
\* onEpochEnd event before the signal.
C18_Cooperative ==
    /\ []C18_EpochDelivered
    /\ [][C18_StopOnlyFlags /\ C18_SignalInCallback]_vars

C18_Witness ==
    \E r \in Slots :
        /\ Has(runs[r].log, "stopreq") /\ Has(runs[r].log, "stopseen")
        /\ runs[r].pc = "frame"
        /\ model # NoModel /\ model.stopTraining

\* C19: when no train call is in progress, every buffer allocated for the
\* train calls so far is released: the dataset records fetched at Start, the
\* base datasets and the per-chunk clones.
C19_BuffersReleased ==
    (\A r \in Slots : ~Active(runs[r])) =>
        /\ liveData = 0
        /\ \A r \in Slots : ~runs[r].base /\ ~runs[r].clones

\* C20: after any sequence of handleLayersChange and handleNeuronsChange
\* events from the default record, the record held by the controls and handed
\* to onParametersChange has as many neuron counts as layers.
C20_NeuronListLength ==
    /\ parameters.layers \in 1..maxLayers
    /\ Len(parameters.neuronsPerLayer) = parameters.layers

C20_Witness ==
    /\ parameters.layers = 3
    /\ parameters.neuronsPerLayer = <<maxNeurons, 1, defaultNeurons>>

\* C21: a handleLayersChange event that takes the layer count from m to n
\* keeps the first min(m, n) neuron counts unchanged and in order; when n < m
\* the new list has exactly those n entries, and when n > m each of the
\* n - m appended entries is 8.
C21_ResizeStep ==
    LET m == parameters.layers
        n == parameters'.layers
        old == parameters.neuronsPerLayer
        new == parameters'.neuronsPerLayer
    IN  n # m =>
          /\ Len(new) >= Min(m, n)
          /\ \A i \in 1..Min(m, n) : new[i] = old[i]
          /\ n < m => Len(new) = n
          /\ n > m => /\ Len(new) = n
                      /\ \A i \in (m + 1)..n : new[i] = defaultNeurons

C21_ResizeKeepsPrefix == [][C21_ResizeStep]_vars

\* a list of distinct counts was cut to its first entry and grown again
C21_Witness ==
    /\ parameters.layers = 3
    /\ parameters.neuronsPerLayer = <<maxNeurons, defaultNeurons, defaultNeurons>>

Painted(what) == \E i \in DOMAIN draw.canvas : draw.canvas[i] = what

\* C22 as stated: when the prediction step of a draw fails the canvas gets
\* the gradient placeholder and the dataset points, and every drawBoundary
\* call that cleared the canvas ends with something painted on it.
C22_NeverBlank ==
    (draw.pc = "done" /\ draw.cleared) =>
        /\ draw.error \in {"predict", "dataSync"} =>
              /\ Painted("gradient")
              /\ dataPointCount(draw.dataset) > 0 => Painted("points")
        /\ draw.canvas # <<>>

\* C22 amended: the same, except that a call whose prediction succeeded and
\* whose canvas was taken out of the document meanwhile returns with the
\* canvas cleared; that is the only call that ends with nothing painted.
C22_BlankOnlyWhenRemoved ==
    (draw.pc = "done" /\ draw.cleared) =>
        /\ draw.error \in {"predict", "dataSync"} =>
              /\ Painted("gradient")
              /\ dataPointCount(draw.dataset) > 0 => Painted("points")
        /\ draw.canvas = <<>> <=> (draw.error = "none" /\ ~draw.connected)

\* reading the prediction values threw: gradient, message and points
C22_Witness ==
    /\ draw.pc = "done"
    /\ draw.error = "dataSync"
    /\ draw.dataset = "circle"
    /\ draw.canvas = <<"gradient", "message", "points">>

\* C25 as stated: when a drawBoundary call has finished, the grid input
\* buffer and the prediction buffer it created are both released.
C25_DrawBuffersReleased ==
    draw.pc = "done" => draw.inputs # "live" /\ draw.predictions # "live"

C23_StartStep ==
    starts' = starts + 1 =>
        LET key == selectedDataset'
        IN  /\ key = "xor" => dataset'.generator = "generateXORData"
            /\ key = "circle" => dataset'.generator = "generateCircleData"
            /\ key = "regression" => dataset'.generator = "generateRegressionData"
            /\ key = "mnist" => dataset'.generator = "loadMNISTSubset"
            /\ key \notin Datasets =>
                  /\ dataset' = generateXORData
                  /\ \E r \in Slots : /\ ~Active(runs[r])
                                      /\ runs'[r].pc # "idle"
                                      /\ runs'[r].task = "xor"

C23_UnknownKeyIsXOR == [][C23_StartStep]_vars

\* an XOR train call under way for the key spiral
C23_Witness ==
    /\ selectedDataset = "spiral"
    /\ dataset.generator = "generateXORData"
    /\ \E r \in Slots : runs[r].task = "xor" /\ runs[r].pc = "frame"

\* C24: in a dataset made by a circle generator, point i has label 1 exactly
\* when x * x + y * y < 0.25, else 0, and there is one label per point.
C24_CircleLabels ==
    dataset.generator \in {"generateCircleData", "NeuralNetworkModel.generateCircleData"} =>
        /\ DOMAIN dataset.labels = DOMAIN dataset.points
        /\ \A i \in DOMAIN dataset.points :
              LET x == dataset.points[i][1]
                  y == dataset.points[i][2]
              IN  /\ dataset.labels[i] \in {0, 1}
                  /\ dataset.labels[i] = 1 <=> 4 * (x * x + y * y) < Units * Units

\* a point on the circle of radius 0.5 after a point inside it
C24_Witness ==
    /\ dataset.generator = "NeuralNetworkModel.generateCircleData"
    /\ dataset.points = <<<<0, 0>>, <<0, 1 - Units>>>>
    /\ dataset.labels = <<1, 0>>

\* C27 as stated: every fit call of a train call gets buffers cloned for its
\* chunk, never the base dataset buffers, and no buffer is handed to two fit
\* calls of the train call.
C27_FreshClonesPerFit ==
    \A r \in Slots :
        LET fed == runs[r].fed
        IN  /\ \A i \in DOMAIN fed : fed[i][1] = "clone"
            /\ \A i, j \in DOMAIN fed : fed[i] = fed[j] => i = j

\* C28 as stated: every fit call of a train call is given the batch size of
\* the parameter record the train call received.
C28_ConfiguredBatchSize ==
    \A r \in Slots :
        runs[r].fed # <<>> => runs[r].batch = runs[r].batchSize

\* C29 as stated: whatever fields the runtime's log record has, the event
\* forwarded to onEpochEnd carries a numeric loss and accuracy for every
\* task: the accuracy is acc when present, else accuracy when present, else
\* 0, and the loss is the record's loss, or 0 when it is missing.
C29_MetricsNormalised ==
    event.task # "none" =>
        LET logs == event.logs
            sent == event.forwarded
        IN  /\ sent.loss.kind = "number"
            /\ sent.accuracy.kind = "number"
            /\ sent.loss.from = (IF logs.loss = "number" THEN "loss" ELSE "default")
            /\ sent.accuracy.from =
                  (IF logs.acc = "number" THEN "acc"
                   ELSE IF logs.accuracy = "number" THEN "accuracy"
                   ELSE "default")

\* C26, first part: every train call that was started settles.
C26_RunsSettle == \A r \in Slots : Active(runs[r]) ~> ~Active(runs[r])

\* C26, second part: the App's isTraining flag falls again.
C26_FlagFalls == appIsTraining ~> ~appIsTraining

\* C26, third part: the step of a Start click begins a train call, and after
\* it the epoch counter and both histories count the epochs of that call only.
C26_BeginsRun ==
    \E r \in Slots :
        /\ ~Active(runs[r])
        /\ runs'[r].pc # "idle"
        /\ LET n == Count(runs'[r].log, "epoch")
           IN  /\ currentEpoch' = n
               /\ history' = [loss |-> n, accuracy |-> n]

\* C26 as stated: every started train call settles, the App's isTraining
\* flag falls again, and every Start click begins a new run with the epoch
\* counter and the histories reset.
C26_EveryStartBeginsRun ==
    /\ C26_RunsSettle
    /\ C26_FlagFalls
    /\ [][starts' = starts + 1 => C26_BeginsRun]_vars

\* C26 amended: the same, except that in the App whose dataset switch has a
\* case for mnist a Start with mnist selected makes no train call: it resets
\* the epoch counter and the histories and clears isTraining at once.
C26_SessionRestarts ==
    /\ C26_RunsSettle
    /\ C26_FlagFalls
    /\ [][starts' = starts + 1 =>
            IF app = "B" /\ selectedDataset' = "mnist"
            THEN /\ currentEpoch' = 0 /\ history' = NoHistory
                 /\ ~appIsTraining'
                 /\ \A r \in Slots : ~Active(runs[r]) => ~Active(runs'[r])
            ELSE C26_BeginsRun]_vars

\* the second Start of a session of the first App: the train call of the
\* first Start has settled, the second one has reported its first epoch
C26_Witness ==
    /\ app = "A"
    /\ starts = 2
    /\ appIsTraining
    /\ runs[1].pc = "frame" /\ runs[2].pc = "idle"
    /\ currentEpoch = 1
    /\ history = [loss |-> 1, accuracy |-> 1]

\* NeuralNetworkModel.isModelTraining
isModelTraining == isTraining

\* C31 as stated: isModelTraining() returns true while a train call is in
\* progress (inside a fit call or in the pause between two chunks), and
\* false when no train call is in progress, however the last one ended.
C31_FlagTracksRun ==
    /\ \A r \in Slots : Active(runs[r]) => isModelTraining
    /\ (\A r \in Slots : ~Active(runs[r])) => ~isModelTraining

\* C32 as stated: while the App is mounted, its isTraining flag is true as
\* long as a train call made by handleStartTraining is in progress, so the
\* button shows Stop during the whole run.
C32_ButtonTracksRun ==
    mounted => \A r \in Slots : Active(runs[r]) => appIsTraining

\* C33 as stated: while a train call is in progress (in a fit call, in the
\* frame an epoch's callback awaits, or in the pause between two chunks) the
\* model instance it began on is neither disposed nor replaced, so every
\* chunk fits that instance.
C33_ModelKeptDuringRun ==
    \A r \in Slots : Active(runs[r]) => ~runs[r].modelDisposed

\* C34: a train call that found a stop request left from the time before it
\* began, and during which stopTraining() is not called, is not cancelled by
\* it: its per-epoch callback never sees a request, it delivers all its
\* epochs when it resolves, and a train operation that reads the stop flag
\* has it reset to false while the call is in progress.
C34_StaleStopIgnored ==
    \A r \in Slots :
        LET R == runs[r]
        IN  (R.stopOnEntry /\ ~Cancelled(R)) =>
                /\ ~Has(R.log, "stopseen")
                /\ Resolved(R) => Count(R.log, "epoch") = R.epochs
                /\ (Active(R) /\ checksStop(R.task)) => ~shouldStopTraining

C34_Witness ==
    \E r \in Slots :
        LET R == runs[r]
        IN  /\ starts = 1
            /\ R.stopOnEntry /\ ~Cancelled(R) /\ checksStop(R.task)
            /\ Resolved(R)
            /\ R.epochs > batchesPerRun
            /\ Count(R.log, "epoch") = R.epochs

\* C35 as stated: at every moment of a session lossHistory and
\* accuracyHistory have the same length, and that length is currentEpoch.
C35_HistoriesMatchEpoch ==
    /\ history.loss = history.accuracy
    /\ history.loss = currentEpoch

====
